---- MODULE Spec2Model ----
(***************************************************************************)
(* The DataStore plugin of CKAN (ckanext/datastore/plugin.py):             *)
(* DatastorePlugin.configure, the three privilege checks it runs, the two  *)
(* schema objects it provisions, the one-time wrapping of the              *)
(* resource_show action, and get_actions.                                  *)
(*                                                                         *)
(* Strings the code inspects character by character (connection URLs,      *)
(* sys.argv[0]) are sequences of one-token strings, so that rindex and     *)
(* split are computed.  A config is a function from option names to        *)
(* values, as the Python dict is: an absent option is absent from DOMAIN.  *)
(* The database is the environment: which connections have CREATE on the   *)
(* public schema, which table privileges the read connection reports, and  *)
(* whether CKAN's own engine is PostgreSQL are fixed per process (env).    *)
(* Every statement the plugin executes or connection it opens during one   *)
(* configure call is appended to trace; every log record to log.           *)
(***************************************************************************)
EXTENDS Naturals, Sequences, FiniteSets, TLC

VARIABLES
    config,         \* self.config
    legacy_mode,    \* self.legacy_mode
    ckan_url,       \* self.ckan_url
    write_url,      \* self.write_url
    read_url,       \* self.read_url
    argv,           \* sys.argv as seen by the running configure call
    env,            \* the databases' answers (see EnvChoices)
    schema,         \* objects that exist in the datastore database
    actions,        \* logic._actions['resource_show']: the wrappers around the original
    pc,             \* position of the running configure call, "idle" between calls
    has_correct,    \* pending return value of _read_connection_has_correct_privileges
    result,         \* how the last configure call ended: "none", "running", "returned", "raised"
    error,          \* the exception of a call that raised
    trace,          \* connections opened, statements executed, actions installed by the current call
    log,            \* log records of the current call
    ncalls,         \* configure calls made so far
    shown,          \* observation of the last call of the installed resource_show
    ret             \* outcome of the last direct call of one of the plugin's check methods

vars == << config, legacy_mode, ckan_url, write_url, read_url, argv, env, schema,
           actions, pc, has_correct, result, error, trace, log, ncalls, shown, ret >>

(***************************************************************************)
(* Helpers for sequences                                                   *)
(***************************************************************************)
Last(s) == s[Len(s)]

Range(s) == { s[i] : i \in 1..Len(s) }

Max(S) == CHOOSE x \in S : \A y \in S : y <= x

(***************************************************************************)
(* Bounds and input domains                                                *)
(***************************************************************************)
MaxConfigure == 2

Unset == << >>

CkanUrl  == << "c", "@", "h", "/", "k" >>
WriteUrl == << "w", ":", "@", "@", "h", "/", "d" >>
ReadUrl  == << "r", "@", "h", "/", "d" >>
NoAtUrl  == << "/", "d" >>

Urls == { CkanUrl, WriteUrl, ReadUrl, NoAtUrl }

\* another role on the database of CkanUrl
ReadOnCkanDb == << "r", "@", "h", "/", "k" >>

\* the endpoints the check methods are called with
UnitUrls == Urls \cup { ReadOnCkanDb }

WriteKey == "ckan.datastore.write_url"
ReadKey  == "ckan.datastore.read_url"
CkanKey  == "sqlalchemy.url"
DebugKey == "debug"

Opt(key, present, value) == IF present THEN key :> value ELSE << >>

Configs ==
    { (CkanKey :> CkanUrl) @@ Opt(WriteKey, w # Unset, w) @@ Opt(ReadKey, r # Unset, r)
        @@ Opt(DebugKey, d # "absent", d = "true") :
        w \in { Unset, WriteUrl, CkanUrl },
        r \in { Unset, ReadUrl, WriteUrl, CkanUrl, NoAtUrl },
        d \in { "absent", "false", "true" } }

Argvs ==
    { << << "/", "bin", "/", "paster" >>, "datastore", "set-permissions" >>,
      << << "/", "bin", "/", "paster" >>, "serve" >>,
      << << "nosetests" >>, "datastore" >> }

Privileges == << "INSERT", "UPDATE", "DELETE" >>

\* the statements of the privilege probe
DropIfExistsSql == "DROP TABLE IF EXISTS public._foo;"

CreateProbeSql == "CREATE TABLE public._foo ()"

PrivilegeSql(privilege) == "SELECT has_table_privilege('_foo', '" \o privilege \o "')"

DropProbeSql == "DROP TABLE _foo"

\* the query of the decorated resource_show, and its connection
MetadataSql == "SELECT 1 FROM \"_table_metadata\" WHERE name = %s AND alias_of IS NULL"

ConnectOp == "engine.connect()"

Null == "NULL"

\* results of the original resource_show
Resource1 == ("id" :> "r1") @@ ("name" :> "a")

Resource2 == ("id" :> "r2") @@ ("name" :> "a")

\* contents of the _table_metadata view: r1 is a table
TableRows == { [ name |-> "r1", alias_of |-> Null ] }

\* r1 is an alias of the table t, r2 is a table
AliasRows == { [ name |-> "r1", alias_of |-> "t" ], [ name |-> "r2", alias_of |-> Null ] }

\* the database's answers.  failing: the statements the database rejects
\* with an error (none of them here: every statement succeeds); resource:
\* what the original resource_show returns; rows: the _table_metadata view
EnvChoices ==
    [ pg       : BOOLEAN,
      create   : { {}, { WriteUrl }, { CkanUrl }, { ReadUrl, NoAtUrl } },
      table    : { {}, { "INSERT" }, { "UPDATE" }, { "DELETE" } },
      failing  : { {} },
      resource : { Resource1 },
      rows     : { TableRows } ]

\* the decorated resource_show against varying resources and view contents,
\* and a database that refuses the connection or rejects the query
ShowEnvChoices ==
    [ pg       : { TRUE },
      create   : { { WriteUrl } },
      table    : { {} },
      failing  : { {}, { ConnectOp }, { MetadataSql } },
      resource : { Resource1, Resource2 },
      rows     : { {}, TableRows, AliasRows,
                   { [ name |-> "r1", alias_of |-> "t" ] },
                   { [ name |-> "r2", alias_of |-> Null ] } } ]

\* the check methods against every combination of CREATE answers
UnitEnvChoices ==
    [ pg       : { TRUE },
      create   : SUBSET { CkanUrl, WriteUrl, ReadUrl },
      table    : { {} },
      failing  : { {} },
      resource : { Resource1 },
      rows     : { TableRows } ]

\* the probe against a database that rejects some of its statements
ProbeFaults ==
    { {}, { CreateProbeSql }, { PrivilegeSql("UPDATE") }, { DropProbeSql },
      { PrivilegeSql("UPDATE"), DropProbeSql } }

ProbeEnvChoices ==
    [ pg       : { TRUE },
      create   : { { WriteUrl } },
      table    : { {}, { "INSERT" }, { "DELETE" }, { "UPDATE", "DELETE" } },
      failing  : ProbeFaults,
      resource : { Resource1 },
      rows     : { TableRows } ]

Connect(url) == [ op |-> "connect", url |-> url, sql |-> "" ]

Execute(url, sql) == [ op |-> "execute", url |-> url, sql |-> sql ]

Warn(msg) == [ level |-> "warn", msg |-> msg ]

Critical(msg) == [ level |-> "critical", msg |-> msg ]

\* the installed resource_show has not been called since the last configure
NoShown ==
    [ orig |-> 0, queries |-> 0, url |-> Unset, data |-> << >>, raised |-> "",
      connected |-> FALSE, closed |-> FALSE ]

\* no check method has been called directly
NoRet == [ op |-> "none", value |-> FALSE, raised |-> "" ]

\* logic._actions['resource_show'] = new_resource_show
Install == [ op |-> "install", url |-> Unset, sql |-> "resource_show" ]

(***************************************************************************)
(* Pure functions of the plugin                                            *)
(***************************************************************************)
\* mutant of RIndexAt: the first "@" instead of the last
IndexAt(url) ==
    IF \E i \in 1..Len(url) : url[i] = "@"
    THEN CHOOSE i \in 1..Len(url) : url[i] = "@" /\ \A j \in 1..(i - 1) : url[j] # "@"
    ELSE 0

\* url.rindex("@"), 1-based; 0 stands for the ValueError of a url without "@"
RIndexAt(url) ==
    IF \E i \in 1..Len(url) : url[i] = "@"
    THEN Max({ i \in 1..Len(url) : url[i] = "@" })
    ELSE 0

\* _get_db_from_url: url[url.rindex("@"):]
GetDbFromUrl(url) == SubSeq(url, RIndexAt(url), Len(url))

\* sys.argv[0].split('/')[-1]
LastPathComponent(path) ==
    IF \E i \in 1..Len(path) : path[i] = "/"
    THEN SubSeq(path, Max({ i \in 1..Len(path) : path[i] = "/" }) + 1, Len(path))
    ELSE path

\* mutant of RunningPaster: sys.argv[0] compared without taking its last component
RunningPasterUnsplit(av) ==
    /\ av[1] = << "paster" >>
    /\ \E i \in 2..Len(av) : av[i] = "datastore"

\* sys.argv[0].split('/')[-1] == 'paster' and 'datastore' in sys.argv[1:]
RunningPaster(av) ==
    /\ LastPathComponent(av[1]) = << "paster" >>
    /\ \E i \in 2..Len(av) : av[i] = "datastore"

\* not 'ckan.datastore.write_url' in config
MissingWriteUrl(cfg) == WriteKey \notin DOMAIN cfg

\* 'ckan.datastore.read_url' not in self.config
LegacyMode(cfg) == ReadKey \notin DOMAIN cfg

\* mutant of ResolveReadUrl: legacy mode takes the wrong endpoint
ResolveReadUrlWrongAttr(legacy, cfg) == IF legacy THEN cfg[CkanKey] ELSE cfg[ReadKey]

\* self.read_url: the write url in legacy mode, else the configured read url
ResolveReadUrl(legacy, cfg) == IF legacy THEN cfg[WriteKey] ELSE cfg[ReadKey]

\* 'debug' in config and config['debug']
DebugOn(cfg) == DebugKey \in DOMAIN cfg /\ cfg[DebugKey]

\* _same_ckan_and_datastore_db raises ValueError: a compared url has no "@"
SameDbRaises(legacy, ckan, write, read) ==
    /\ legacy \/ write # read
    /\ RIndexAt(ckan) = 0 \/ RIndexAt(read) = 0

\* mutant of SameCkanAndDatastoreDb: the write = read comparison is not guarded by the mode
SameCkanAndDatastoreDbUnguarded(legacy, ckan, write, read) ==
    IF write = read
    THEN TRUE
    ELSE GetDbFromUrl(ckan) = GetDbFromUrl(read)

\* _same_ckan_and_datastore_db, where it returns
SameCkanAndDatastoreDb(legacy, ckan, write, read) ==
    IF ~legacy /\ write = read
    THEN TRUE
    ELSE GetDbFromUrl(ckan) = GetDbFromUrl(read)

\* _is_read_only_database: the urls it asks, in order, up to the first writable one
RECURSIVE AskedUrls(_, _)
AskedUrls(urls, create) ==
    IF urls = << >> THEN << >>
    ELSE IF Head(urls) \in create THEN << Head(urls) >>
    ELSE << Head(urls) >> \o AskedUrls(Tail(urls), create)

\* mutant of IsReadOnlyDatabase: only the first connection is asked
IsReadOnlyDatabaseFirstOnly(urls, create) == ~(Head(urls) \in create)

\* _is_read_only_database: True when the loop ends without a writable connection
IsReadOnlyDatabase(urls, create) ==
    LET asked == AskedUrls(urls, create)
    IN  ~(Last(asked) \in create)

RECURSIVE ReadOnlyTrace(_)
ReadOnlyTrace(asked) ==
    IF asked = << >> THEN << >>
    ELSE << Connect(Head(asked)),
            Execute(Head(asked), "SELECT has_schema_privilege('public', 'CREATE')") >>
         \o ReadOnlyTrace(Tail(asked))

\* mutant of AskedPrivileges: the loop does not stop at the first privilege found
AskedPrivilegesAll(privs, granted) == privs

\* the privileges the probe's loop queries: up to the first one the read role has
RECURSIVE AskedPrivileges(_, _)
AskedPrivileges(privs, granted) ==
    IF privs = << >> THEN << >>
    ELSE IF Head(privs) \in granted THEN << Head(privs) >>
    ELSE << Head(privs) >> \o AskedPrivileges(Tail(privs), granted)

RECURSIVE PrivilegeTrace(_, _)
PrivilegeTrace(url, asked) ==
    IF asked = << >> THEN << >>
    ELSE << Execute(url, PrivilegeSql(Head(asked))) >>
         \o PrivilegeTrace(url, Tail(asked))

\* the statements that are run: up to and including the first the database rejects
RECURSIVE RunUntilFailure(_, _)
RunUntilFailure(stmts, failing) ==
    IF stmts = << >> THEN << >>
    ELSE IF Head(stmts).sql \in failing THEN << Head(stmts) >>
    ELSE << Head(stmts) >> \o RunUntilFailure(Tail(stmts), failing)

\* the exception a rejected statement raises
ProgrammingError(sql) == "ProgrammingError: " \o sql

\* mutant of ProbeVerdict: only the first privilege is looked at
ProbeVerdictFirstOnly(privs, granted) == ~(Head(privs) \in granted)

\* the value the probe's try block decides: False at the first privilege found
ProbeVerdict(privs, granted) ==
    LET asked == AskedPrivileges(privs, granted)
    IN  ~(Last(asked) \in granted)

\* mutant of HasWrappedMarker: the marker is looked up on the wrong object and never found
HasWrappedMarkerNever(acts) == FALSE

\* hasattr(resource_show, '_datastore_wrapped') for the installed action
HasWrappedMarker(acts) == acts # << >> /\ Last(acts)._datastore_wrapped

\* one call of the installed action: calls of the original, metadata queries
RECURSIVE CallAction(_)
CallAction(acts) ==
    IF acts = << >>
    THEN [ orig |-> 1, queries |-> 0 ]
    ELSE LET inner == CallAction(SubSeq(acts, 1, Len(acts) - 1))
         IN  [ orig |-> inner.orig, queries |-> inner.queries + 1 ]

\* the exceptions of the decorated resource_show
OperationalError(op) == "OperationalError: " \o op

UnboundLocalError == "UnboundLocalError: local variable 'connection' referenced before assignment"

\* mutant of QueryMetadata: the query does not look at alias_of
QueryMetadataAnyAlias(rows, id) == { r \in rows : r.name = id }

\* lines 97-100: the rows with name = id and alias_of IS NULL
QueryMetadata(rows, id) == { r \in rows : r.name = id /\ r.alias_of = Null }

\* new_resource_show (lines 89-107) around a result of the wrapped action.
\* engine.connect() is inside the try block: when it raises, connection is
\* unbound in the finally block and connection.close() raises
\* UnboundLocalError in place of the connection error.
NewResourceShow(new_data_dict, rows, tables, failing) ==
    IF ConnectOp \in failing
    THEN [ data |-> << >>, raised |-> UnboundLocalError, queries |-> 0,
           connected |-> FALSE, closed |-> FALSE ]
    ELSE IF MetadataSql \in failing \/ "_table_metadata" \notin tables
    THEN [ data |-> << >>, raised |-> ProgrammingError(MetadataSql), queries |-> 1,
           connected |-> TRUE, closed |-> TRUE ]
    ELSE [ data |-> ("datastore_active" :> (QueryMetadata(rows, new_data_dict["id"]) # {}))
                        @@ new_data_dict,
           raised |-> "", queries |-> 1, connected |-> TRUE, closed |-> TRUE ]

\* mutant of GetActions: the mode test is inverted
GetActionsInverted(legacy) ==
    { "datastore_create", "datastore_upsert", "datastore_delete", "datastore_search" }
        \cup (IF legacy THEN { "datastore_search_sql" } ELSE {})

\* get_actions: the names of the actions the plugin exposes
GetActions(legacy) ==
    { "datastore_create", "datastore_upsert", "datastore_delete", "datastore_search" }
        \cup (IF ~legacy THEN { "datastore_search_sql" } ELSE {})

(***************************************************************************)
(* Initial state: the plugin object after construction                     *)
(***************************************************************************)
Init ==
    /\ config = << >>
    /\ legacy_mode = FALSE
    /\ ckan_url = Unset
    /\ write_url = Unset
    /\ read_url = Unset
    /\ argv = << >>
    /\ env \in EnvChoices
    /\ schema = {}
    /\ actions = << >>
    /\ pc = "idle"
    /\ has_correct = TRUE
    /\ result = "none"
    /\ error = ""
    /\ trace = << >>
    /\ log = << >>
    /\ ncalls = 0
    /\ shown = NoShown
    /\ ret = NoRet

Raise(err) ==
    /\ pc' = "idle"
    /\ result' = "raised"
    /\ error' = err

\* mutant of ConfigureBegin: the paster check comes before the write_url check
ConfigureBeginPasterFirst(cfg, av) ==
    /\ pc = "idle"
    /\ ncalls < MaxConfigure
    /\ ncalls' = ncalls + 1
    /\ config' = cfg
    /\ argv' = av
    /\ trace' = << >>
    /\ shown' = NoShown
    /\ has_correct' = TRUE
    /\ IF RunningPaster(av)
       THEN /\ legacy_mode' = LegacyMode(cfg)
            /\ log' = << Warn("omitting permission checks") >>
            /\ pc' = "idle"
            /\ result' = "returned"
            /\ error' = ""
            /\ UNCHANGED << ckan_url, write_url, read_url >>
       ELSE IF MissingWriteUrl(cfg)
       THEN /\ Raise("DatastoreException")
            /\ log' = << >>
            /\ UNCHANGED << legacy_mode, ckan_url, write_url, read_url >>
       ELSE /\ legacy_mode' = LegacyMode(cfg)
            /\ log' = << >>
            /\ ckan_url' = cfg[CkanKey]
            /\ write_url' = cfg[WriteKey]
            /\ read_url' = ResolveReadUrl(legacy_mode', cfg)
            /\ pc' = "engine"
            /\ result' = "running"
            /\ error' = ""
    /\ UNCHANGED << env, schema, actions >>
    /\ UNCHANGED ret

(***************************************************************************)
(* configure, lines 27-52: validation, mode, paster check, endpoints       *)
(***************************************************************************)
ConfigureBegin(cfg, av) ==
    /\ pc = "idle"
    /\ ncalls < MaxConfigure
    /\ ncalls' = ncalls + 1
    /\ config' = cfg
    /\ argv' = av
    /\ trace' = << >>
    /\ shown' = NoShown
    /\ has_correct' = TRUE
    /\ IF MissingWriteUrl(cfg)
       THEN /\ Raise("DatastoreException")
            /\ log' = << >>
            /\ UNCHANGED << legacy_mode, ckan_url, write_url, read_url >>
       ELSE /\ legacy_mode' = LegacyMode(cfg)
            /\ IF RunningPaster(av)
               THEN /\ log' = << Warn("omitting permission checks") >>
                    /\ pc' = "idle"
                    /\ result' = "returned"
                    /\ error' = ""
                    /\ UNCHANGED << ckan_url, write_url, read_url >>
               ELSE /\ log' = << >>
                    /\ ckan_url' = cfg[CkanKey]
                    /\ write_url' = cfg[WriteKey]
                    /\ read_url' = ResolveReadUrl(legacy_mode', cfg)
                    /\ pc' = "engine"
                    /\ result' = "running"
                    /\ error' = ""
    /\ UNCHANGED << env, schema, actions >>
    /\ UNCHANGED ret

(***************************************************************************)
(* line 54 and 77-80: model.engine_is_pg()                                 *)
(***************************************************************************)
CheckEngine ==
    /\ pc = "engine"
    /\ IF env.pg
       THEN /\ pc' = "read_only"
            /\ UNCHANGED log
       ELSE /\ pc' = "decorate"
            /\ log' = Append(log, Warn("not PostgreSQL"))
    /\ UNCHANGED << config, legacy_mode, ckan_url, write_url, read_url, argv, env, schema,
                    actions, has_correct, result, error, trace, ncalls, shown >>
    /\ UNCHANGED ret

\* mutant of CheckReadOnly: the answer of _is_read_only_database skips nothing
CheckReadOnlyNoSkip ==
    /\ pc = "read_only"
    /\ LET urls == << ckan_url, write_url, read_url >>
       IN  /\ trace' = trace \o ReadOnlyTrace(AskedUrls(urls, env.create))
           /\ IF IsReadOnlyDatabase(urls, env.create)
              THEN /\ pc' = "same_db"
                   /\ log' = Append(log, Warn("read only database"))
              ELSE /\ pc' = "same_db"
                   /\ UNCHANGED log
    /\ UNCHANGED << config, legacy_mode, ckan_url, write_url, read_url, argv, env, schema,
                    actions, has_correct, result, error, ncalls, shown >>
    /\ UNCHANGED ret

(***************************************************************************)
(* line 55 and 73-76, 116-128: _is_read_only_database                      *)
(***************************************************************************)
CheckReadOnly ==
    /\ pc = "read_only"
    /\ LET urls == << ckan_url, write_url, read_url >>
       IN  /\ trace' = trace \o ReadOnlyTrace(AskedUrls(urls, env.create))
           /\ IF IsReadOnlyDatabase(urls, env.create)
              THEN /\ pc' = "decorate"
                   /\ log' = Append(log, Warn("read only database"))
              ELSE /\ pc' = "same_db"
                   /\ UNCHANGED log
    /\ UNCHANGED << config, legacy_mode, ckan_url, write_url, read_url, argv, env, schema,
                    actions, has_correct, result, error, ncalls, shown >>
    /\ UNCHANGED ret

\* mutant of CheckSameDb: the same-database check runs whatever debug says
CheckSameDbIgnoresDebug ==
    /\ pc = "same_db"
    /\ IF SameDbRaises(legacy_mode, ckan_url, write_url, read_url)
       THEN Raise("ValueError")
       ELSE IF SameCkanAndDatastoreDb(legacy_mode, ckan_url, write_url, read_url)
       THEN Raise("The write and read-only database connection url are the same.")
       ELSE /\ pc' = "privileges"
            /\ UNCHANGED << result, error >>
    /\ UNCHANGED << config, legacy_mode, ckan_url, write_url, read_url, argv, env, schema,
                    actions, has_correct, trace, log, ncalls, shown >>
    /\ UNCHANGED ret

(***************************************************************************)
(* lines 58-61, 130-147: the same-database check, unless debug             *)
(***************************************************************************)
CheckSameDb ==
    /\ pc = "same_db"
    /\ IF DebugOn(config)
       THEN /\ pc' = "privileges"
            /\ UNCHANGED << result, error >>
       ELSE IF SameDbRaises(legacy_mode, ckan_url, write_url, read_url)
       THEN Raise("ValueError")
       ELSE IF SameCkanAndDatastoreDb(legacy_mode, ckan_url, write_url, read_url)
       THEN Raise("The write and read-only database connection url are the same.")
       ELSE /\ pc' = "privileges"
            /\ UNCHANGED << result, error >>
    /\ UNCHANGED << config, legacy_mode, ckan_url, write_url, read_url, argv, env, schema,
                    actions, has_correct, trace, log, ncalls, shown >>
    /\ UNCHANGED ret

(***************************************************************************)
(* lines 62-65: legacy mode warns and goes on; otherwise the probe starts  *)
(* (lines 154-161: drop the probe table if it exists, connect as reader).  *)
(* Line 156 hands execute two strings: the first is the statement, the     *)
(* second a bind parameter of it, so only the DROP ... IF EXISTS is run.    *)
(***************************************************************************)
ProbeSetup ==
    /\ pc = "privileges"
    /\ IF legacy_mode
       THEN /\ log' = Append(log, Warn("legacy mode active"))
            /\ pc' = "create_alias"
            /\ UNCHANGED << trace, schema >>
       ELSE /\ trace' = trace \o << Connect(write_url),
                                    Execute(write_url, DropIfExistsSql),
                                    Connect(read_url) >>
            /\ schema' = schema \ { "_foo" }
            /\ pc' = "probe_try"
            /\ UNCHANGED log
    /\ UNCHANGED << config, legacy_mode, ckan_url, write_url, read_url, argv, env,
                    actions, has_correct, result, error, ncalls, shown >>
    /\ UNCHANGED ret

\* mutant of ProbeFinally: the drop is ordinary code after the loop, not a finally block
ProbeFinallyNotOnError ==
    /\ pc = "probe_finally"
    /\ IF error # ""
       THEN /\ Raise(error)
            /\ UNCHANGED << trace, schema >>
       ELSE /\ trace' = Append(trace, Execute(write_url, DropProbeSql))
            /\ IF DropProbeSql \in env.failing \/ "_foo" \notin schema
               THEN /\ Raise(ProgrammingError(DropProbeSql))
                    /\ UNCHANGED schema
               ELSE /\ schema' = schema \ { "_foo" }
                    /\ pc' = "verdict"
                    /\ UNCHANGED << result, error >>
    /\ UNCHANGED << config, legacy_mode, ckan_url, write_url, read_url, argv, env,
                    actions, has_correct, log, ncalls, shown >>
    /\ UNCHANGED ret

(***************************************************************************)
(* lines 163-169, the try block: create the probe table, ask for the three *)
(* privileges in turn.  CREATE TABLE is rejected if the database rejects   *)
(* it or the table exists.  A rejected statement raises: the exception is  *)
(* pending (error) while the finally block runs; otherwise the pending     *)
(* return value is has_correct.                                            *)
(***************************************************************************)
ProbeTry ==
    /\ pc = "probe_try"
    /\ LET create == Execute(write_url, CreateProbeSql)
           createFails == CreateProbeSql \in env.failing \/ "_foo" \in schema
           queries == PrivilegeTrace(read_url, AskedPrivileges(Privileges, env.table))
           ran == IF createFails THEN << create >>
                  ELSE RunUntilFailure(<< create >> \o queries, env.failing)
           raised == createFails \/ Last(ran).sql \in env.failing
       IN  /\ trace' = trace \o ran
           /\ schema' = IF createFails THEN schema ELSE schema \cup { "_foo" }
           /\ has_correct' = IF raised THEN has_correct
                                       ELSE ProbeVerdict(Privileges, env.table)
           /\ error' = IF raised THEN ProgrammingError(Last(ran).sql) ELSE error
    /\ pc' = "probe_finally"
    /\ UNCHANGED << config, legacy_mode, ckan_url, write_url, read_url, argv, env,
                    actions, result, log, ncalls, shown >>
    /\ UNCHANGED ret

(***************************************************************************)
(* lines 170-172: the finally block drops the probe table (no IF EXISTS:   *)
(* the statement is rejected when the table does not exist).  An exception *)
(* raised here replaces the pending exception or return value; otherwise   *)
(* the pending exception goes on to the caller of configure, or the probe  *)
(* returns.                                                                *)
(***************************************************************************)
ProbeFinally ==
    /\ pc = "probe_finally"
    /\ trace' = Append(trace, Execute(write_url, DropProbeSql))
    /\ IF DropProbeSql \in env.failing \/ "_foo" \notin schema
       THEN /\ Raise(ProgrammingError(DropProbeSql))
            /\ UNCHANGED schema
       ELSE /\ schema' = schema \ { "_foo" }
            /\ IF error # ""
               THEN Raise(error)
               ELSE /\ pc' = "verdict"
                    /\ UNCHANGED << result, error >>
    /\ UNCHANGED << config, legacy_mode, ckan_url, write_url, read_url, argv, env,
                    actions, has_correct, log, ncalls, shown >>
    /\ UNCHANGED ret

(***************************************************************************)
(* lines 65-71: wrong privileges are fatal, or critical under debug        *)
(***************************************************************************)
PrivilegeVerdict ==
    /\ pc = "verdict"
    /\ IF has_correct
       THEN /\ pc' = "create_alias"
            /\ UNCHANGED << log, result, error >>
       ELSE IF DebugOn(config)
       THEN /\ log' = Append(log, Critical("We have write permissions on the read-only database."))
            /\ pc' = "create_alias"
            /\ UNCHANGED << result, error >>
       ELSE /\ Raise("We have write permissions on the read-only database.")
            /\ UNCHANGED log
    /\ UNCHANGED << config, legacy_mode, ckan_url, write_url, read_url, argv, env, schema,
                    actions, has_correct, trace, ncalls, shown >>
    /\ UNCHANGED ret

(***************************************************************************)
(* line 72, 174-197: _create_alias_table.  It connects to the write url of *)
(* pylons.config, the configuration configure was given.                   *)
(***************************************************************************)
CreateAliasTable ==
    /\ pc = "create_alias"
    /\ trace' = trace \o << Connect(config[WriteKey]),
                            Execute(config[WriteKey], "CREATE OR REPLACE VIEW _table_metadata") >>
    /\ schema' = schema \cup { "_table_metadata" }
    /\ pc' = "decorate"
    /\ UNCHANGED << config, legacy_mode, ckan_url, write_url, read_url, argv, env,
                    actions, has_correct, result, error, log, ncalls, shown >>
    /\ UNCHANGED ret

(***************************************************************************)
(* lines 87-113: wrap resource_show unless it carries the marker           *)
(***************************************************************************)
Decorate ==
    /\ pc = "decorate"
    /\ IF ~HasWrappedMarker(actions)
       THEN /\ actions' = Append(actions, [ _datastore_wrapped |-> TRUE ])
            /\ trace' = Append(trace, Install)
       ELSE UNCHANGED << actions, trace >>
    /\ pc' = "add_function"
    /\ UNCHANGED << config, legacy_mode, ckan_url, write_url, read_url, argv, env, schema,
                    has_correct, result, error, log, ncalls, shown >>
    /\ UNCHANGED ret

(***************************************************************************)
(* line 114, 199-216: _add_is_valid_type_function, then configure returns  *)
(***************************************************************************)
AddIsValidTypeFunction ==
    /\ pc = "add_function"
    /\ trace' = trace \o << Connect(config[WriteKey]),
                            Execute(config[WriteKey], "CREATE OR REPLACE FUNCTION is_valid_type") >>
    /\ schema' = schema \cup { "is_valid_type" }
    /\ pc' = "idle"
    /\ result' = "returned"
    /\ UNCHANGED << config, legacy_mode, ckan_url, write_url, read_url, argv, env,
                    actions, has_correct, error, log, ncalls, shown >>
    /\ UNCHANGED ret

(***************************************************************************)
(* a request calls the installed resource_show (lines 89-107)              *)
(***************************************************************************)
ResourceShow ==
    /\ pc = "idle"
    /\ result # "none"
    /\ shown.orig = 0
    /\ LET r == CallAction(actions)
           w == NewResourceShow(env.resource, env.rows, schema, env.failing)
       IN  shown' = IF actions = << >>
                    THEN [ NoShown EXCEPT !.orig = r.orig, !.data = env.resource ]
                    ELSE [ orig |-> r.orig, queries |-> r.queries - 1 + w.queries,
                           url |-> read_url, data |-> w.data, raised |-> w.raised,
                           connected |-> w.connected, closed |-> w.closed ]
    /\ UNCHANGED << config, legacy_mode, ckan_url, write_url, read_url, argv, env, schema,
                    actions, pc, has_correct, result, error, trace, log, ncalls >>
    /\ UNCHANGED ret

Next ==
    \/ \E cfg \in Configs, av \in Argvs : ConfigureBegin(cfg, av)
    \/ CheckEngine
    \/ CheckReadOnly
    \/ CheckSameDb
    \/ ProbeSetup
    \/ ProbeTry
    \/ ProbeFinally
    \/ PrivilegeVerdict
    \/ CreateAliasTable
    \/ Decorate
    \/ AddIsValidTypeFunction
    \/ ResourceShow

Spec == Init /\ [][Next]_vars

(***************************************************************************)
(* The same plugin against a database that may reject a statement of the   *)
(* probe, and in which an earlier process may have left the probe table.   *)
(***************************************************************************)
InitProbe ==
    /\ config = << >>
    /\ legacy_mode = FALSE
    /\ ckan_url = Unset
    /\ write_url = Unset
    /\ read_url = Unset
    /\ argv = << >>
    /\ env \in ProbeEnvChoices
    /\ schema \in { {}, { "_foo" } }
    /\ actions = << >>
    /\ pc = "idle"
    /\ has_correct = TRUE
    /\ result = "none"
    /\ error = ""
    /\ trace = << >>
    /\ log = << >>
    /\ ncalls = 0
    /\ shown = NoShown
    /\ ret = NoRet

SpecProbe == InitProbe /\ [][Next]_vars

(***************************************************************************)
(* The same plugin, its decorated resource_show called for varying         *)
(* resources and view contents, against a database that may refuse the     *)
(* connection or reject the query.                                         *)
(***************************************************************************)
InitShow ==
    /\ config = << >>
    /\ legacy_mode = FALSE
    /\ ckan_url = Unset
    /\ write_url = Unset
    /\ read_url = Unset
    /\ argv = << >>
    /\ env \in ShowEnvChoices
    /\ schema = {}
    /\ actions = << >>
    /\ pc = "idle"
    /\ has_correct = TRUE
    /\ result = "none"
    /\ error = ""
    /\ trace = << >>
    /\ log = << >>
    /\ ncalls = 0
    /\ shown = NoShown
    /\ ret = NoRet

SpecShow == InitShow /\ [][Next]_vars

(***************************************************************************)
(* The two check methods called directly on a plugin whose mode and        *)
(* endpoints are as lines 37 and 47-52 leave them: in legacy mode the read *)
(* url is the write url.                                                   *)
(***************************************************************************)
InitUnit ==
    /\ config = << >>
    /\ legacy_mode \in BOOLEAN
    /\ ckan_url \in UnitUrls
    /\ write_url \in UnitUrls
    /\ read_url \in (IF legacy_mode THEN { write_url } ELSE UnitUrls)
    /\ argv = << >>
    /\ env \in UnitEnvChoices
    /\ schema = {}
    /\ actions = << >>
    /\ pc = "idle"
    /\ has_correct = TRUE
    /\ result = "none"
    /\ error = ""
    /\ trace = << >>
    /\ log = << >>
    /\ ncalls = 0
    /\ shown = NoShown
    /\ ret = NoRet

\* self._same_ckan_and_datastore_db() (lines 130-147)
CallSameCkanAndDatastoreDb ==
    /\ pc = "idle"
    /\ ret' = IF SameDbRaises(legacy_mode, ckan_url, write_url, read_url)
              THEN [ op |-> "_same_ckan_and_datastore_db", value |-> FALSE,
                     raised |-> "ValueError" ]
              ELSE [ op |-> "_same_ckan_and_datastore_db",
                     value |-> SameCkanAndDatastoreDb(legacy_mode, ckan_url, write_url, read_url),
                     raised |-> "" ]
    /\ trace' = << >>
    /\ UNCHANGED << config, legacy_mode, ckan_url, write_url, read_url, argv, env, schema,
                    actions, pc, has_correct, result, error, log, ncalls, shown >>

\* self._is_read_only_database() (lines 116-128)
CallIsReadOnlyDatabase ==
    /\ pc = "idle"
    /\ LET urls == << ckan_url, write_url, read_url >>
       IN  /\ ret' = [ op |-> "_is_read_only_database",
                       value |-> IsReadOnlyDatabase(urls, env.create),
                       raised |-> "" ]
           /\ trace' = ReadOnlyTrace(AskedUrls(urls, env.create))
    /\ UNCHANGED << config, legacy_mode, ckan_url, write_url, read_url, argv, env, schema,
                    actions, pc, has_correct, result, error, log, ncalls, shown >>

NextUnit ==
    \/ CallSameCkanAndDatastoreDb
    \/ CallIsReadOnlyDatabase

SpecUnit == InitUnit /\ [][NextUnit]_vars

(***************************************************************************)
(* Vocabulary of the properties                                            *)
(***************************************************************************)
SameDbError == "The write and read-only database connection url are the same."

PrivilegeError == "We have write permissions on the read-only database."

PasterDatastoreArgv == << << "/", "bin", "/", "paster" >>, "datastore", "set-permissions" >>

\* a configure call has been made and has ended
CallEnded == ncalls > 0 /\ pc = "idle" /\ result \in { "returned", "raised" }

Executed(sql) == \E i \in 1..Len(trace) : trace[i].op = "execute" /\ trace[i].sql = sql

ExecutedAny == \E i \in 1..Len(trace) : trace[i].op = "execute"

ConnectedAny == \E i \in 1..Len(trace) : trace[i].op = "connect"

Installed == \E i \in 1..Len(trace) : trace[i].op = "install"

CreatedView == Executed("CREATE OR REPLACE VIEW _table_metadata")

CreatedFunction == Executed("CREATE OR REPLACE FUNCTION is_valid_type")

CreatedProbe == Executed("CREATE TABLE public._foo ()")

LoggedCritical == \E i \in 1..Len(log) : log[i].level = "critical"

HasAt(url) == "@" \in Range(url)

\* the read endpoint the configuration resolves to
ConfiguredReadUrl == IF ReadKey \in DOMAIN config THEN config[ReadKey] ELSE config[WriteKey]

\* some role connection has CREATE on the public schema: not a read-only replica
NotReadOnly ==
    \E u \in { config[CkanKey], config[WriteKey], ConfiguredReadUrl } : u \in env.create

\* the call passed validation, was not skipped, and runs on the supported engine
Audited ==
    /\ ncalls > 0
    /\ WriteKey \in DOMAIN config
    /\ ~RunningPaster(argv)
    /\ env.pg

FullAudit == Audited /\ ReadKey \in DOMAIN config /\ NotReadOnly

LegacyAudit == Audited /\ ReadKey \notin DOMAIN config /\ NotReadOnly

\* the same-database leak condition of a Full configuration, on the configured urls
LeakHolds ==
    \/ config[WriteKey] = config[ReadKey]
    \/ /\ HasAt(config[CkanKey])
       /\ HasAt(config[ReadKey])
       /\ GetDbFromUrl(config[CkanKey]) = GetDbFromUrl(config[ReadKey])

\* the leak check cannot be evaluated: it compares a url that has no "@"
LeakUndefined ==
    /\ config[WriteKey] # config[ReadKey]
    /\ ~HasAt(config[CkanKey]) \/ ~HasAt(config[ReadKey])

NothingProvisioned == ~CreatedView /\ ~CreatedFunction /\ ~Installed

(***************************************************************************)
(* C1 as stated: in Full mode, on the supported engine, not a read-only    *)
(* replica, debug unset, configure fails if and only if the leak check is  *)
(* true or the read role has INSERT, UPDATE or DELETE on the probe table,  *)
(* and a call that fails has created neither schema object nor decorated.  *)
(***************************************************************************)
C1_FailsIffLeakOrPrivilege_AsStated ==
    (CallEnded /\ FullAudit /\ ~DebugOn(config)) =>
        /\ (result = "raised") <=> (LeakHolds \/ env.table # {})
        /\ result = "raised" => NothingProvisioned

(***************************************************************************)
(* C1: in Full mode, on the supported engine, not a read-only replica,     *)
(* debug unset, configure fails if and only if the leak check is true, or  *)
(* the leak check raises ValueError because the Primary or the Read url    *)
(* has no "@", or the read role has INSERT, UPDATE or DELETE on the probe  *)
(* table; a call that fails has created neither the alias metadata view    *)
(* nor the type-validity function and has not decorated the read action.   *)
(***************************************************************************)
C1_FailsIffLeakOrPrivilege ==
    (CallEnded /\ FullAudit /\ ~DebugOn(config)) =>
        /\ (result = "raised") <=> (LeakHolds \/ LeakUndefined \/ env.table # {})
        /\ (result = "raised" /\ error = "ValueError") <=> (~LeakHolds /\ LeakUndefined)
        /\ (result = "raised" /\ error = SameDbError) <=> LeakHolds
        /\ result = "raised" => NothingProvisioned

C1_Witness ==
    /\ CallEnded /\ FullAudit /\ ~DebugOn(config)
    /\ ~LeakHolds /\ ~LeakUndefined
    /\ env.table = { "UPDATE" }
    /\ result = "raised" /\ error = PrivilegeError
    /\ CreatedProbe /\ NothingProvisioned

(***************************************************************************)
(* C2: with debug set (Full mode, supported engine, not a read-only        *)
(* replica) configure never fails because of the same-database or          *)
(* privilege checks: the leak check has no effect (not even the ValueError *)
(* of a url without "@"), the probe is still executed, excess privileges   *)
(* are logged at critical severity, and the call goes on through both      *)
(* schema objects and the decoration and returns.                          *)
(***************************************************************************)
C2_DebugDowngrades ==
    (CallEnded /\ FullAudit /\ DebugOn(config)) =>
        /\ result = "returned"
        /\ CreatedProbe
        /\ Executed(PrivilegeSql("INSERT"))
        /\ LoggedCritical <=> env.table # {}
        /\ CreatedView /\ CreatedFunction
        /\ HasWrappedMarker(actions)

C2_Witness ==
    /\ CallEnded /\ FullAudit /\ DebugOn(config)
    /\ config[WriteKey] = config[ReadKey]
    /\ env.table # {}
    /\ LoggedCritical
    /\ result = "returned" /\ CreatedView /\ CreatedFunction /\ Installed

(***************************************************************************)
(* C3 as stated: in Legacy mode, on the supported engine, not a read-only  *)
(* replica, configure never ends in Failed because of a same-database      *)
(* condition and never creates the probe table.                            *)
(***************************************************************************)
C3_LegacySkipsBothChecks_AsStated ==
    (CallEnded /\ LegacyAudit) =>
        /\ ~(result = "raised" /\ error = SameDbError)
        /\ ~CreatedProbe

(***************************************************************************)
(* C3: in Legacy mode, on the supported engine, not a read-only replica,   *)
(* the read-role privilege probe is skipped and the probe table is never   *)
(* created, but the same-database check still runs unless debug is set     *)
(* (only its Write = Read comparison is skipped): for urls containing "@", *)
(* configure fails, with the same-database error, if and only if debug is  *)
(* unset and the Primary and the Write url name the same database.         *)
(***************************************************************************)
C3_LegacySkipsProbeOnly ==
    LegacyAudit =>
        /\ ~CreatedProbe
        /\ pc \notin { "probe_try", "probe_finally", "verdict" }
        /\ (CallEnded /\ HasAt(config[CkanKey]) /\ HasAt(config[WriteKey])) =>
              /\ (result = "raised") <=>
                     /\ ~DebugOn(config)
                     /\ GetDbFromUrl(config[CkanKey]) = GetDbFromUrl(config[WriteKey])
              /\ result = "raised" => error = SameDbError

C3_Witness ==
    /\ CallEnded /\ LegacyAudit /\ ~DebugOn(config)
    /\ GetDbFromUrl(config[CkanKey]) # GetDbFromUrl(config[WriteKey])
    /\ result = "returned"
    /\ CreatedView /\ ~CreatedProbe

(***************************************************************************)
(* C4: a configure call creates the alias metadata view or the             *)
(* type-validity function only when the backend is the supported engine,   *)
(* is not a read-only replica, and (if not Legacy) the privilege checks    *)
(* passed or were downgraded by debug.                                     *)
(***************************************************************************)
C4_ProvisionOnlyWhenWritablePg ==
    (ncalls > 0 /\ (CreatedView \/ CreatedFunction)) =>
        /\ env.pg
        /\ NotReadOnly
        /\ ReadKey \in DOMAIN config => (env.table = {} \/ DebugOn(config))

(***************************************************************************)
(* C5: when the backend is not the supported engine, configure ends        *)
(* without a fatal error, runs no privilege introspection and no           *)
(* statement at all, and never reaches schema bootstrap or the decoration  *)
(* of the read action.                                                     *)
(***************************************************************************)
C5_UnsupportedEngineDisables ==
    (ncalls > 0 /\ WriteKey \in DOMAIN config /\ ~RunningPaster(argv) /\ ~env.pg) =>
        /\ result # "raised"
        /\ pc \notin { "read_only", "same_db", "privileges", "probe_try", "probe_finally",
                       "verdict", "create_alias", "decorate", "add_function" }
        /\ ~ExecutedAny
        /\ ~Installed

(***************************************************************************)
(* C6: after any sequence of configure calls the installed read action     *)
(* wraps the original at most once: one call of it invokes the original    *)
(* exactly once and issues exactly one alias-metadata query; once the      *)
(* wrap marker is set the installed action never changes again.            *)
(***************************************************************************)
C6_WrappedAtMostOnce ==
    /\ [](/\ Len(actions) <= 1
          /\ CallAction(actions).orig = 1
          /\ actions # << >> => (HasWrappedMarker(actions) /\ CallAction(actions).queries = 1)
          /\ (shown.orig # 0 /\ actions # << >>) => (shown.orig = 1 /\ shown.queries = 1))
    /\ [][HasWrappedMarker(actions) => (actions' = actions)]_vars

C6_Witness ==
    /\ ncalls = 2 /\ CallEnded /\ result = "returned"
    /\ ~RunningPaster(argv)
    /\ ~Installed
    /\ Len(actions) = 1
    /\ shown.orig = 1 /\ shown.queries = 1

(***************************************************************************)
(* C7: a configuration without ckan.datastore.write_url makes configure    *)
(* fail with the missing-option error before any connection is opened,     *)
(* any statement executed or any action installed, whatever read_url,      *)
(* debug and the paster skip signal are.                                   *)
(***************************************************************************)
C7_MissingWriteUrlFailsFirst ==
    (ncalls > 0 /\ WriteKey \notin DOMAIN config) =>
        /\ pc = "idle"
        /\ result = "raised"
        /\ error = "DatastoreException"
        /\ trace = << >>

C7_Witness ==
    /\ ncalls > 0 /\ WriteKey \notin DOMAIN config
    /\ ReadKey \in DOMAIN config
    /\ DebugOn(config)
    /\ argv = PasterDatastoreArgv
    /\ result = "raised" /\ error = "DatastoreException"

(***************************************************************************)
(* C8: once configure has passed validation, legacy_mode holds if and      *)
(* only if read_url is absent from the configuration; in every later step  *)
(* of the call the Read endpoint equals the Write endpoint in Legacy mode   *)
(* and is the configured read_url in Full mode.                            *)
(***************************************************************************)
C8_LegacyIffNoReadUrl ==
    (ncalls > 0 /\ WriteKey \in DOMAIN config) =>
        /\ legacy_mode <=> ReadKey \notin DOMAIN config
        /\ ~RunningPaster(argv) =>
              /\ write_url = config[WriteKey]
              /\ legacy_mode => read_url = write_url
              /\ ~legacy_mode => read_url = config[ReadKey]

C8_Witness ==
    /\ pc = "read_only"
    /\ legacy_mode
    /\ ReadKey \notin DOMAIN config
    /\ read_url = write_url /\ write_url = WriteUrl

\* get_actions exposes datastore_search_sql
SqlSearchExposed == "datastore_search_sql" \in GetActions(legacy_mode)

(***************************************************************************)
(* C9: get_actions always exposes the four CRUD/search actions, and it     *)
(* exposes datastore_search_sql exactly when the most recent configuration *)
(* that passed validation contained read_url: a configure call that passes *)
(* validation sets the exposure to the presence of read_url, every other   *)
(* step leaves it as it was.                                               *)
(***************************************************************************)
C9_SqlSearchIffNotLegacy ==
    /\ []({ "datastore_create", "datastore_upsert", "datastore_delete", "datastore_search" }
              \subseteq GetActions(legacy_mode))
    /\ [][IF ncalls' > ncalls /\ WriteKey \in DOMAIN config'
          THEN SqlSearchExposed' <=> ReadKey \in DOMAIN config'
          ELSE SqlSearchExposed' <=> SqlSearchExposed]_vars

C9_Witness ==
    /\ ncalls = 2 /\ CallEnded
    /\ WriteKey \notin DOMAIN config
    /\ ReadKey \in DOMAIN config
    /\ legacy_mode
    /\ ~SqlSearchExposed

(***************************************************************************)
(* C10: when the process runs the paster datastore command and write_url   *)
(* is present, configure returns at once: no connection is opened, no      *)
(* check runs, no statement is executed and no action is installed.        *)
(***************************************************************************)
C10_PasterSkipsEverything ==
    (ncalls > 0 /\ argv = PasterDatastoreArgv /\ WriteKey \in DOMAIN config) =>
        /\ pc = "idle"
        /\ result = "returned"
        /\ trace = << >>

C10_Witness ==
    /\ ncalls > 0 /\ argv = PasterDatastoreArgv
    /\ WriteKey \in DOMAIN config /\ ReadKey \in DOMAIN config
    /\ config[WriteKey] = config[ReadKey]
    /\ env.pg /\ env.table # {}
    /\ result = "returned" /\ trace = << >> /\ actions = << >>

Logged(level, msg) == \E i \in 1..Len(log) : log[i] = [ level |-> level, msg |-> msg ]

ExecutedPrivilegeQuery ==
    \E i \in 1..Len(Privileges) :
        Executed(PrivilegeSql(Privileges[i]))

(***************************************************************************)
(* C11: when none of the three role connections has CREATE on the public   *)
(* schema (read-only replica, supported engine), the same-database check   *)
(* and the privilege probe are both skipped: the call never raises, even   *)
(* if the leak condition holds or the read role has mutation privileges,   *)
(* the probe table is never created and no table privilege is queried; the *)
(* call warns about the read-only database and returns.                    *)
(***************************************************************************)
C11_ReadOnlySkipsChecks ==
    (Audited /\ ~NotReadOnly) =>
        /\ pc \notin { "same_db", "privileges", "probe_try", "probe_finally", "verdict",
                       "create_alias" }
        /\ result # "raised"
        /\ ~CreatedProbe
        /\ ~ExecutedPrivilegeQuery
        /\ "_foo" \notin schema
        /\ CallEnded => (result = "returned" /\ Logged("warn", "read only database"))

C11_Witness ==
    /\ CallEnded /\ Audited /\ ~NotReadOnly
    /\ ReadKey \in DOMAIN config
    /\ config[WriteKey] = config[ReadKey]
    /\ ~DebugOn(config)
    /\ env.table # {}
    /\ result = "returned"
    /\ Logged("warn", "read only database")
    /\ ~CreatedProbe

\* positions in the trace of the current call
Position(op, sql) ==
    { i \in 1..Len(trace) : trace[i].op = op /\ trace[i].sql = sql }

(***************************************************************************)
(* C15: in a configure call that takes the full path (supported engine,    *)
(* not a read-only replica, checks passed or downgraded), the alias        *)
(* metadata view and the type-validity function have both been created     *)
(* before the read action is decorated.                                    *)
(***************************************************************************)
C15_BootstrapBeforeDecoration ==
    (Audited /\ NotReadOnly) =>
        \A i \in Position("install", "resource_show") :
            /\ \E j \in Position("execute", "CREATE OR REPLACE VIEW _table_metadata") : j < i
            /\ \E j \in Position("execute", "CREATE OR REPLACE FUNCTION is_valid_type") : j < i

\* the configuration, process and database of the current call make configure fail
\* (a call ends raised exactly in these cases)
CallFails ==
    \/ WriteKey \notin DOMAIN config
    \/ /\ Audited
       /\ NotReadOnly
       /\ ~DebugOn(config)
       /\ IF ReadKey \in DOMAIN config
          THEN LeakHolds \/ LeakUndefined \/ env.table # {}
          ELSE \/ ~HasAt(config[CkanKey])
               \/ ~HasAt(config[WriteKey])
               \/ GetDbFromUrl(config[CkanKey]) = GetDbFromUrl(config[WriteKey])

(***************************************************************************)
(* C20: a configure call that fails after a successful one                 *)
(* leaves the endpoint state unchanged: the step that begins a call which  *)
(* is going to fail, taken when the previous call returned, leaves the     *)
(* mode used by get_actions as it was and, if the decorated read action is *)
(* installed, the Read endpoint it uses.                                   *)
(***************************************************************************)
C20_FailedConfigureKeepsEndpoints ==
    [][(ncalls' > ncalls /\ result = "returned" /\ CallFails') =>
           /\ legacy_mode' = legacy_mode
           /\ actions # << >> => read_url' = read_url]_vars

(***************************************************************************)
(* Vocabulary of the probe                                                 *)
(***************************************************************************)
\* _read_connection_has_correct_privileges has been called in this configure call
ProbeCalled == Executed(DropIfExistsSql)

\* ... and it has returned or raised
ProbeEnded == ProbeCalled /\ pc \notin { "probe_try", "probe_finally" }

\* the try block raised: the creation of the probe table or a privilege query was rejected
TryRaised ==
    \E i \in 1..Len(trace) :
        /\ trace[i].op = "execute"
        /\ trace[i].sql \in env.failing
        /\ trace[i].sql # DropProbeSql

\* the error the try block raised
TryError ==
    LET i == CHOOSE i \in 1..Len(trace) :
                 /\ trace[i].op = "execute"
                 /\ trace[i].sql \in env.failing
                 /\ trace[i].sql # DropProbeSql
    IN  ProgrammingError(trace[i].sql)

(***************************************************************************)
(* C13: after a call of the privilege probe the probe table is absent,     *)
(* whether the probe returned safe or unsafe, a privilege query raised, or *)
(* the creation of the probe table failed (provided the database does not  *)
(* reject the cleanup's DROP of an existing table).                        *)
(***************************************************************************)
C13_ProbeTableAbsent ==
    (ProbeEnded /\ DropProbeSql \notin env.failing) => "_foo" \notin schema

C13_Witness ==
    /\ ProbeEnded
    /\ env.failing = { PrivilegeSql("UPDATE") }
    /\ Executed(CreateProbeSql)
    /\ Executed(PrivilegeSql("UPDATE"))
    /\ result = "raised" /\ error = ProgrammingError(PrivilegeSql("UPDATE"))
    /\ Executed(DropProbeSql)
    /\ "_foo" \notin schema

\* the cleanup's DROP TABLE was rejected: by the database, or because the
\* probe table does not exist (its creation had failed)
DropFailed ==
    /\ Executed(DropProbeSql)
    /\ DropProbeSql \in env.failing \/ CreateProbeSql \in env.failing

(***************************************************************************)
(* C14: when the cleanup step that drops the probe table fails, the caller *)
(* of the probe still observes what the try block had determined: the      *)
(* error it raised, or else its verdict (safe or unsafe); the drop failure *)
(* is surfaced as a warning only.                                          *)
(***************************************************************************)
C14_CleanupFailureDoesNotMask ==
    (ProbeEnded /\ DropFailed) =>
        /\ ~(result = "raised" /\ error = ProgrammingError(DropProbeSql))
        /\ IF TryRaised
           THEN result = "raised" /\ error = TryError
           ELSE has_correct <=> env.table = {}
        /\ \E i \in 1..Len(log) : log[i].level = "warn"

\* position in the trace of the probe's first statement
ProbeStart == CHOOSE i \in 1..Len(trace) : trace[i] = Execute(write_url, DropIfExistsSql)

\* how many privileges the probe has to ask for: up to the first the read role has
NumAsked ==
    IF \E k \in 1..Len(Privileges) : Privileges[k] \in env.table
    THEN CHOOSE k \in 1..Len(Privileges) :
             /\ Privileges[k] \in env.table
             /\ \A j \in 1..(k - 1) : Privileges[j] \notin env.table
    ELSE Len(Privileges)

(***************************************************************************)
(* C18: the privilege probe (no statement rejected) drops the probe table  *)
(* if it exists and creates it afresh as the Write role, then asks as the  *)
(* Read role for INSERT, UPDATE and DELETE on it in that order, stops at   *)
(* the first privilege present (no later one is queried) and reports       *)
(* unsafe; it reports safe if and only if none of the three is present.    *)
(***************************************************************************)
C18_ProbeOrderAndVerdict ==
    (ProbeEnded /\ env.failing = {}) =>
        /\ has_correct <=> (env.table \cap Range(Privileges) = {})
        /\ Len(trace) >= ProbeStart + 3 + NumAsked
        /\ trace[ProbeStart - 1] = Connect(write_url)
        /\ trace[ProbeStart + 1] = Connect(read_url)
        /\ trace[ProbeStart + 2] = Execute(write_url, CreateProbeSql)
        /\ \A k \in 1..NumAsked :
               trace[ProbeStart + 2 + k] = Execute(read_url, PrivilegeSql(Privileges[k]))
        /\ trace[ProbeStart + 3 + NumAsked] = Execute(write_url, DropProbeSql)
        /\ ~has_correct => Privileges[NumAsked] \in env.table

C18_Witness ==
    /\ ProbeEnded /\ env.failing = {}
    /\ env.table = { "UPDATE", "DELETE" }
    /\ ~has_correct
    /\ Executed(PrivilegeSql("INSERT"))
    /\ Executed(PrivilegeSql("UPDATE"))
    /\ ~Executed(PrivilegeSql("DELETE"))
    /\ result = "raised" /\ error = PrivilegeError

(***************************************************************************)
(* Vocabulary of the decorated read action                                 *)
(***************************************************************************)
\* the decorated resource_show has been called since the last configure
DecoratedShown == shown.orig # 0 /\ actions # << >>

\* the view has a row for the resource that is not an alias
HasTableRow ==
    \E row \in env.rows : row.name = env.resource["id"] /\ row.alias_of = Null

(***************************************************************************)
(* C12: for every result of the original read action, the decorated read   *)
(* action (connection and query succeeding) returns that result with       *)
(* exactly one field added, the boolean datastore_active, which is true if *)
(* and only if the alias metadata view has a row whose name is the         *)
(* resource id and whose alias_of is null; every other field is unchanged. *)
(***************************************************************************)
C12_AddsOnlyDatastoreActive ==
    DecoratedShown =>
        /\ shown.orig = 1
        /\ (shown.raised = "") <=> (env.failing = {} /\ "_table_metadata" \in schema)
        /\ shown.raised = "" =>
              /\ "datastore_active" \notin DOMAIN env.resource
              /\ DOMAIN shown.data = DOMAIN env.resource \cup { "datastore_active" }
              /\ shown.data["datastore_active"] \in BOOLEAN
              /\ shown.data["datastore_active"] <=> HasTableRow
              /\ \A k \in DOMAIN env.resource : shown.data[k] = env.resource[k]

C12_Witness ==
    /\ DecoratedShown
    /\ shown.raised = ""
    /\ env.resource = Resource1
    /\ env.rows = AliasRows
    /\ shown.data["id"] = "r1"
    /\ shown.data["datastore_active"] = FALSE

(***************************************************************************)
(* C19: in the decorated read action the connection is released on every   *)
(* exit path, and a failure to acquire the connection or to run the query  *)
(* reaches the caller as that failure.                                     *)
(***************************************************************************)
C19_ReleasedAndErrorKept ==
    DecoratedShown =>
        /\ shown.connected => shown.closed
        /\ ConnectOp \in env.failing => shown.raised = OperationalError(ConnectOp)
        /\ (ConnectOp \notin env.failing /\ MetadataSql \in env.failing) =>
              shown.raised = ProgrammingError(MetadataSql)

(***************************************************************************)
(* Vocabulary of the check methods                                         *)
(***************************************************************************)
\* the part of a url from its last "@" on (the url contains one)
LastAtSuffix(url) ==
    LET i == CHOOSE i \in 1..Len(url) :
                 url[i] = "@" /\ \A j \in (i + 1)..Len(url) : url[j] # "@"
    IN  [ k \in 1..(Len(url) - i + 1) |-> url[i + k - 1] ]

AllHaveAt == HasAt(ckan_url) /\ HasAt(write_url) /\ HasAt(read_url)

(***************************************************************************)
(* C16: for urls containing "@", the same-database check returns true if   *)
(* and only if (Full mode and the Write url equals the Read url) or the    *)
(* Primary url and the Read url have the same suffix from their last "@";  *)
(* so in Full mode it is true whenever Write equals Read, whatever the     *)
(* Primary url, and in Legacy mode Write = Read alone does not make it     *)
(* true.                                                                   *)
(***************************************************************************)
C16_SameDbIffEqualOrSameSuffix ==
    (ret.op = "_same_ckan_and_datastore_db" /\ AllHaveAt) =>
        /\ ret.raised = ""
        /\ ret.value <=>
              \/ ~legacy_mode /\ write_url = read_url
              \/ LastAtSuffix(ckan_url) = LastAtSuffix(read_url)
        /\ (~legacy_mode /\ write_url = read_url) => ret.value
        /\ (legacy_mode /\ LastAtSuffix(ckan_url) # LastAtSuffix(write_url)) => ~ret.value

C16_Witness ==
    /\ ret.op = "_same_ckan_and_datastore_db"
    /\ ckan_url = WriteUrl
    /\ write_url = CkanUrl
    /\ read_url = ReadUrl
    /\ ~legacy_mode
    /\ ret.raised = ""
    /\ ret.value

(***************************************************************************)
(* C17: the read-only check returns true if and only if none of the three  *)
(* role connections (Primary, Write, Read) has CREATE on the public schema *)
(* and false if any one of them has, for every combination of the three    *)
(* answers.                                                                *)
(***************************************************************************)
C17_ReadOnlyIffNoCreate ==
    ret.op = "_is_read_only_database" =>
        /\ ret.raised = ""
        /\ ret.value <=> (ckan_url \notin env.create /\ write_url \notin env.create
                            /\ read_url \notin env.create)
        /\ ret.value => Len(trace) = 6

C17_Witness ==
    /\ ret.op = "_is_read_only_database"
    /\ ckan_url = CkanUrl /\ write_url = WriteUrl /\ read_url = ReadUrl
    /\ env.create = { ReadUrl }
    /\ ~ret.value
    /\ Len(trace) = 6

====
